---- MODULE Spec2Model ----
(***************************************************************************)
(* REC: an egui control panel for OBS (src/src/main.rs).                   *)
(*                                                                         *)
(* Two threads share two bounded tokio mpsc channels:                      *)
(*   - the driver thread (main.rs 18-92) receives Action values, holds an  *)
(*     Option<Client> and talks to the mixer;                              *)
(*   - the eframe thread runs App::update once per frame (main.rs 166-371),*)
(*     polls ObsInfo snapshots and submits Actions with try_send.          *)
(* Every remote call of the driver is followed by expect/unwrap, so a      *)
(* failure panics the driver thread; every try_send of the consumer is     *)
(* followed by expect, so a failure panics the main thread, which ends the *)
(* process.                                                                *)
(***************************************************************************)
EXTENDS Integers, Sequences, FiniteSets, TLC

VARIABLES
    action_q,       \* messages buffered in the Action channel (main.rs 16)
    action_closed,  \* action_rx has been dropped (driver thread unwound)
    obs_info_q,     \* messages buffered in the ObsInfo channel (main.rs 17)
    pc,             \* the driver's await point
    action,         \* the Action the driver is processing
    obs_client,     \* main.rs 24: Option<Client>, a connection id or None
    client,         \* main.rs 46: the LogIn arm's local client
    fetched,        \* main.rs 50-70: the LogIn arm's four fetched inventories
    app,            \* struct App (main.rs 116-136)
    app_running,    \* the main thread (and so the process) is alive
    conns,          \* the mixer's live connections
    next_conn,      \* connections made so far
    sources,        \* the source names that exist at the mixer
    next_id,        \* commands accepted into the Action channel so far
    last_submit,    \* outcome of the latest try_send: none, ok, full, closed
    accepted,       \* the commands accepted so far, in submission order
    failure,        \* the remote request that failed last: none, connect,
                    \* list, set_muted, set_volume
    last_call,      \* the latest call made on the remote session
    last_recv,      \* id of the command the driver received last
    skipped,        \* ids of commands the driver consumed without a remote call
    delivered,      \* kinds of the snapshots sent so far, in sending order
    logins_done,    \* LogIn arms that reached obs_client = Some(client)
    listed,         \* the responses of the latest successful list requests
    muted,          \* the mixer's mute state of each source
    merged          \* the snapshots the consumer has polled, in polling order

vars == <<action_q, action_closed, obs_info_q, pc, action, obs_client, client,
          fetched, app, app_running, conns, next_conn, sources, next_id,
          last_submit, accepted, failure, last_call, last_recv, skipped,
          delivered, logins_done, listed, muted, merged>>

None == "None"

\* Option<Client>: the empty set, or the one connection the Client owns
NoClient == {}
Some(c) == {c}

(***************************************************************************)
(* Program constants and bounds.                                           *)
(***************************************************************************)
ActionCap == 10
ObsInfoCap == 10

\* Spec: commands the consumer gets accepted in one run.
MaxCmds == 3
\* BurstSpec: commands the consumer gets accepted in one run.
MaxBurst == 12
\* DriverSpec: commands the producer submits in one run.
MaxDriverCmds == 3
\* commands sent in a run of VolumeSpec
MaxVolumeCmds == 2
\* snapshots sent into the ObsInfo channel in a run of ConsumerSpec
MaxSnapshots == 3

\* Slider positions the operator drags to (the slider spans 0.0..=100.0).
Levels == {50}
\* every whole position of a slider (main.rs 274, 290: 0.0..=100.0)
Percents == 0..100

(***************************************************************************)
(* The mixer's inventory.  A kind is the token list of OBS's kind string   *)
(* (e.g. wasapi_input_capture).                                            *)
(***************************************************************************)
AllInputs ==
    << [name |-> "mic1", kind |-> <<"wasapi", "input", "capture">>],
       [name |-> "desk1", kind |-> <<"wasapi", "output", "capture">>] >>

Names == {AllInputs[i].name : i \in 1..Len(AllInputs)}

Exists(name) == name \in sources

\* responses of the four list requests for the mixer's current state
ListInputs == SelectSeq(AllInputs, LAMBDA i : Exists(i.name))
ListOutputs == <<"virtualcam_output">>
ListScenes == [current |-> "Scene", scenes |-> <<"Scene">>]
ListSceneCollections == [current |-> "Untitled", collections |-> <<"Untitled">>]

\* str::contains on a kind, per token
contains(kind, word) == \E i \in 1..Len(kind) : kind[i] = word

RECURSIVE Gcd(_, _)
Gcd(a, b) == IF b = 0 THEN a ELSE Gcd(b, a % b)

\* value / 100.0 as an exact fraction in lowest terms
Div100(value) ==
    LET g == Gcd(100, value)
    IN  [num |-> value \div g, den |-> 100 \div g]

VolumeMulUnscaled(value) == [mul |-> [num |-> value, den |-> 1]]
\* main.rs 39: Volume::Mul(value / 100.0)
VolumeMul(value) == [mul |-> Div100(value)]

(***************************************************************************)
(* enum Action (main.rs 104-108); id is the submission number.             *)
(***************************************************************************)
LogIn(addr, port, pass) ==
    [op |-> "LogIn", name |-> addr, val |-> <<port, pass>>]
SetMute(name, val) == [op |-> "SetMute", name |-> name, val |-> val]
SetVolume(name, value) == [op |-> "SetVolume", name |-> name, val |-> value]

NoAction == [id |-> 0, op |-> "none", name |-> None, val |-> None]
NoCall == [id |-> 0, op |-> "none", name |-> None, arg |-> None,
           held |-> NoClient, live |-> FALSE, res |-> "none"]
NoFetch == [input_info |-> <<>>, output_info |-> <<>>,
            scenes |-> [current |-> None, scenes |-> <<>>],
            scene_collections |-> [current |-> None, collections |-> <<>>]]

\* enum ObsInfo (main.rs 110-115)
ObsInfo(kind, payload) == [kind |-> kind, payload |-> payload]

(***************************************************************************)
(* Channel operations.                                                     *)
(***************************************************************************)
\* Sender::try_send: Closed once the receiver is gone, Full at capacity
try_send(q, closed, msg) ==
    IF closed THEN [res |-> "closed", q |-> q]
    ELSE IF Len(q) >= ActionCap THEN [res |-> "full", q |-> q]
    ELSE [res |-> "ok", q |-> Append(q, msg)]

try_recv_newest(q) ==
    IF q = <<>> THEN [ok |-> FALSE, msg |-> ObsInfo("none", None), q |-> q]
    ELSE [ok |-> TRUE, msg |-> q[Len(q)], q |-> SubSeq(q, 1, Len(q) - 1)]
\* Receiver::try_recv: the oldest buffered message, or nothing
try_recv(q) ==
    IF q = <<>> THEN [ok |-> FALSE, msg |-> ObsInfo("none", None), q |-> q]
    ELSE [ok |-> TRUE, msg |-> Head(q), q |-> Tail(q)]

DequeueNewest(q) == [msg |-> q[Len(q)], q |-> SubSeq(q, 1, Len(q) - 1)]
\* Receiver::recv on a non-empty channel: the oldest buffered message
Dequeue(q) == [msg |-> Head(q), q |-> Tail(q)]

(***************************************************************************)
(* The driver's await points: at is recv, set_muted, set_volume, connect,  *)
(* list, send or panicked; i counts the list and send steps of a LogIn.    *)
(***************************************************************************)
At(at) == [at |-> at, i |-> 0]
Step(at, i) == [at |-> at, i |-> i]

(***************************************************************************)
(* Initial state: main.rs 16-24 and App::new (main.rs 139-162).            *)
(***************************************************************************)
AppNew ==
    [input_info |-> <<>>, output_info |-> <<>>,
     scene_info |-> [current |-> None, scenes |-> <<>>],
     scene_collection_info |-> [current |-> None, collections |-> <<>>],
     mic_input_name |-> None, desktop_input_name |-> None,
     mic_level |-> 0, desktop_level |-> 0,
     mic_muted |-> FALSE, desktop_muted |-> FALSE,
     logged_in |-> FALSE, pass |-> ""]

Init ==
    /\ action_q = <<>>
    /\ action_closed = FALSE
    /\ obs_info_q = <<>>
    /\ pc = At("recv")
    /\ action = NoAction
    /\ obs_client = NoClient
    /\ client = NoClient
    /\ fetched = NoFetch
    /\ app = AppNew
    /\ app_running = TRUE
    /\ conns = {}
    /\ next_conn = 0
    /\ sources = Names
    /\ next_id = 0
    /\ last_submit = "none"
    /\ accepted = <<>>
    /\ failure = "none"
    /\ last_call = NoCall
    /\ last_recv = 0
    /\ skipped = {}
    /\ delivered = <<>>
    /\ logins_done = 0
    /\ listed = NoFetch
    /\ muted = [n \in Names |-> FALSE]
    /\ merged = <<>>

(***************************************************************************)
(* The driver thread (main.rs 24-90).                                      *)
(***************************************************************************)
HoldsSessionAlways(c) == TRUE
\* main.rs 29, 38: if let Some(obs_client) = &obs_client
HoldsSession(c) == c # NoClient

\* the mixer serves a request on a live connection
Alive(c) == c # NoClient /\ c \subseteq conns

\* set_muted / set_volume succeed for a source the mixer knows
OperationOk(c, name) == Alive(c) /\ Exists(name)

\* A failed expect/unwrap in the driver thread: the thread unwinds, dropping
\* client, obs_client (their connections close), action_rx and obs_info_tx.
DriverPanics ==
    /\ pc' = At("panicked")
    /\ action' = NoAction
    /\ conns' = conns \ (client \cup obs_client)
    /\ client' = NoClient
    /\ obs_client' = NoClient
    /\ fetched' = NoFetch
    /\ action_closed' = TRUE
    /\ action_q' = <<>>

\* the mixer's mute state after it served request c
Applied(m, c) ==
    CASE c.op = "set_muted" -> [m EXCEPT ![c.name] = c.arg]
      [] c.op = "toggle_mute" -> [m EXCEPT ![c.name] = ~@]
      [] OTHER -> m

Call(a, op, arg) ==
    [id |-> a.id, op |-> op, name |-> a.name, arg |-> arg,
     held |-> obs_client, live |-> Alive(obs_client), res |-> "pending"]

MuteRequestToggle(a) == [op |-> "toggle_mute", arg |-> a.val]
\* main.rs 30-33: obs_client.inputs().set_muted(&name, val)
MuteRequest(a) == [op |-> "set_muted", arg |-> a.val]

\* main.rs 26-36: recv yields a SetMute
RecvSetMute ==
    /\ app_running
    /\ pc = At("recv")
    /\ action_q # <<>>
    /\ LET d == Dequeue(action_q)
           a == d.msg
       IN  /\ a.op = "SetMute"
           /\ action_q' = d.q
           /\ last_recv' = a.id
           /\ IF HoldsSession(obs_client)
              THEN /\ pc' = At("set_muted")
                   /\ action' = a
                   /\ last_call' = Call(a, MuteRequest(a).op, MuteRequest(a).arg)
                   /\ UNCHANGED skipped
              ELSE /\ skipped' = skipped \cup {a.id}
                   /\ UNCHANGED <<pc, action, last_call>>
    /\ UNCHANGED <<listed, muted, merged>>
    /\ UNCHANGED <<action_closed, obs_info_q, obs_client, client, fetched, app,
                   app_running, conns, next_conn, sources, next_id, last_submit,
                   accepted, failure, delivered, logins_done>>

\* main.rs 37-44: recv yields a SetVolume
RecvSetVolume ==
    /\ app_running
    /\ pc = At("recv")
    /\ action_q # <<>>
    /\ LET d == Dequeue(action_q)
           a == d.msg
       IN  /\ a.op = "SetVolume"
           /\ action_q' = d.q
           /\ last_recv' = a.id
           /\ IF HoldsSession(obs_client)
              THEN /\ pc' = At("set_volume")
                   /\ action' = a
                   /\ last_call' = Call(a, "set_volume", VolumeMul(a.val))
                   /\ UNCHANGED skipped
              ELSE /\ skipped' = skipped \cup {a.id}
                   /\ UNCHANGED <<pc, action, last_call>>
    /\ UNCHANGED <<listed, muted, merged>>
    /\ UNCHANGED <<action_closed, obs_info_q, obs_client, client, fetched, app,
                   app_running, conns, next_conn, sources, next_id, last_submit,
                   accepted, failure, delivered, logins_done>>

\* main.rs 30-34, 40-42: the call returns Ok
OperationOkReturns ==
    /\ app_running
    /\ pc.at \in {"set_muted", "set_volume"}
    /\ OperationOk(last_call.held, last_call.name)
    /\ pc' = At("recv")
    /\ action' = NoAction
    /\ last_call' = [last_call EXCEPT !.res = "ok"]
    /\ muted' = Applied(muted, last_call)
    /\ UNCHANGED <<listed, merged>>
    /\ UNCHANGED <<action_q, action_closed, obs_info_q, obs_client, client,
                   fetched, app, app_running, conns, next_conn, sources,
                   next_id, last_submit, accepted, failure, last_recv,
                   skipped, delivered, logins_done>>

\* main.rs 34, 40-42: the call returns Err and expect panics
OperationFails ==
    /\ app_running
    /\ pc.at \in {"set_muted", "set_volume"}
    /\ ~OperationOk(last_call.held, last_call.name)
    /\ last_call' = [last_call EXCEPT
                        !.res = IF Alive(last_call.held) THEN "rejected"
                                ELSE "lost"]
    /\ failure' = last_call.op
    /\ DriverPanics
    /\ UNCHANGED <<listed, muted, merged>>
    /\ UNCHANGED <<obs_info_q, app, app_running, next_conn, sources, next_id,
                   last_submit, accepted, last_recv, skipped, delivered,
                   logins_done>>

\* main.rs 45-46: recv yields a LogIn; Client::connect starts
RecvLogIn ==
    /\ app_running
    /\ pc = At("recv")
    /\ action_q # <<>>
    /\ LET d == Dequeue(action_q)
           a == d.msg
       IN  /\ a.op = "LogIn"
           /\ action_q' = d.q
           /\ last_recv' = a.id
           /\ action' = a
    /\ pc' = At("connect")
    /\ UNCHANGED <<listed, muted, merged>>
    /\ UNCHANGED <<action_closed, obs_info_q, obs_client, client, fetched, app,
                   app_running, conns, next_conn, sources, next_id, last_submit,
                   accepted, failure, last_call, skipped, delivered,
                   logins_done>>

\* main.rs 50-70: the four list requests, in order
ListOrder == <<"input_info", "output_info", "scenes", "scene_collections">>

ListResponse(what) ==
    CASE what = "input_info" -> ListInputs
      [] what = "output_info" -> ListOutputs
      [] what = "scenes" -> ListScenes
      [] what = "scene_collections" -> ListSceneCollections

SendOrderOutputsFirst ==
    << [kind |-> "OutputInfo", from |-> "output_info"],
       [kind |-> "InputInfo", from |-> "input_info"],
       [kind |-> "SceneInfo", from |-> "scenes"],
       [kind |-> "SceneCollectionInfo", from |-> "scene_collections"] >>
\* main.rs 72-85: the four sends, in order
SendOrder ==
    << [kind |-> "InputInfo", from |-> "input_info"],
       [kind |-> "OutputInfo", from |-> "output_info"],
       [kind |-> "SceneInfo", from |-> "scenes"],
       [kind |-> "SceneCollectionInfo", from |-> "scene_collections"] >>

LoginArmSendAsFetched ==
    << Step("list", 1), Step("send", 1), Step("list", 2), Step("send", 2),
       Step("list", 3), Step("send", 3), Step("list", 4), Step("send", 4) >>
\* main.rs 50-85: the await points of the LogIn arm after connect, in order
LoginArm ==
    << Step("list", 1), Step("list", 2), Step("list", 3), Step("list", 4),
       Step("send", 1), Step("send", 2), Step("send", 3), Step("send", 4) >>

\* the await point that follows p; recv after the last one
After(p) ==
    LET k == CHOOSE j \in 1..Len(LoginArm) : LoginArm[j] = p
    IN  IF k < Len(LoginArm) THEN LoginArm[k + 1] ELSE At("recv")

\* main.rs 46-48: connect returns Ok(client)
ConnectOk ==
    /\ app_running
    /\ pc = At("connect")
    /\ next_conn' = next_conn + 1
    /\ client' = Some(next_conn + 1)
    /\ conns' = conns \cup {next_conn + 1}
    /\ pc' = LoginArm[1]
    /\ UNCHANGED <<listed, muted, merged>>
    /\ UNCHANGED <<action_q, action_closed, obs_info_q, action, obs_client,
                   fetched, app, app_running, sources, next_id, last_submit,
                   accepted, failure, last_call, last_recv, skipped,
                   delivered, logins_done>>

\* main.rs 46-48: connect returns Err and expect panics
ConnectFails ==
    /\ app_running
    /\ pc = At("connect")
    /\ failure' = "connect"
    /\ DriverPanics
    /\ UNCHANGED <<listed, muted, merged>>
    /\ UNCHANGED <<obs_info_q, app, app_running, next_conn, sources, next_id,
                   last_submit, accepted, last_call, last_recv, skipped,
                   delivered, logins_done>>

\* main.rs 50-70: a list request returns Ok
ListOk ==
    /\ app_running
    /\ pc.at = "list"
    /\ Alive(client)
    /\ fetched' = [fetched EXCEPT ![ListOrder[pc.i]] = ListResponse(ListOrder[pc.i])]
    /\ listed' = [listed EXCEPT ![ListOrder[pc.i]] = ListResponse(ListOrder[pc.i])]
    /\ pc' = After(pc)
    /\ UNCHANGED <<muted, merged>>
    /\ UNCHANGED <<action_q, action_closed, obs_info_q, action, obs_client,
                   client, app, app_running, conns, next_conn, sources, next_id,
                   last_submit, accepted, failure, last_call, last_recv,
                   skipped, delivered, logins_done>>

\* main.rs 50-70: a list request returns Err and expect panics
ListFails ==
    /\ app_running
    /\ pc.at = "list"
    /\ ~Alive(client)
    /\ failure' = "list"
    /\ DriverPanics
    /\ UNCHANGED <<listed, muted, merged>>
    /\ UNCHANGED <<obs_info_q, app, app_running, next_conn, sources, next_id,
                   last_submit, accepted, last_call, last_recv, skipped,
                   delivered, logins_done>>

\* main.rs 72-87: a send completes once the ObsInfo channel has room; after
\* the last one, obs_client = Some(client) drops the previous Client
SendSnapshot ==
    /\ app_running
    /\ pc.at = "send"
    /\ Len(obs_info_q) < ObsInfoCap
    /\ LET s == SendOrder[pc.i]
       IN  /\ obs_info_q' = Append(obs_info_q, ObsInfo(s.kind, fetched[s.from]))
           /\ delivered' = Append(delivered, s.kind)
    /\ IF After(pc) # At("recv")
       THEN /\ pc' = After(pc)
            /\ UNCHANGED <<action, obs_client, client, fetched, conns,
                           logins_done>>
       ELSE /\ pc' = At("recv")
            /\ action' = NoAction
            /\ obs_client' = client
            /\ conns' = conns \ obs_client
            /\ client' = NoClient
            /\ fetched' = NoFetch
            /\ logins_done' = logins_done + 1
    /\ UNCHANGED <<listed, muted, merged>>
    /\ UNCHANGED <<action_q, action_closed, app, app_running, next_conn,
                   sources, next_id, last_submit, accepted, failure,
                   last_call, last_recv, skipped>>

(***************************************************************************)
(* The mixer and the network.                                              *)
(***************************************************************************)
\* a live connection is lost (closed by the mixer, protocol error, timeout)
ConnectionLost ==
    /\ app_running
    /\ \E c \in conns : conns' = conns \ {c}
    /\ UNCHANGED <<listed, muted, merged>>
    /\ UNCHANGED <<action_q, action_closed, obs_info_q, pc, action, obs_client,
                   client, fetched, app, app_running, next_conn, sources,
                   next_id, last_submit, accepted, failure, last_call,
                   last_recv, skipped, delivered, logins_done>>

\* a source is removed at the mixer: its name becomes stale
SourceRemoved ==
    /\ app_running
    /\ \E n \in sources : sources' = sources \ {n}
    /\ UNCHANGED <<listed, muted, merged>>
    /\ UNCHANGED <<action_q, action_closed, obs_info_q, pc, action, obs_client,
                   client, fetched, app, app_running, conns, next_conn, next_id,
                   last_submit, accepted, failure, last_call, last_recv,
                   skipped, delivered, logins_done>>

(***************************************************************************)
(* The consumer: App::update (main.rs 166-371), one call per frame.  The   *)
(* frame threads a record through the widgets in source order:             *)
(*   app       struct App                                                  *)
(*   q         the Action channel's buffer                                 *)
(*   panicked  an expect failed earlier in the frame                       *)
(*   next_id, submit, log   as next_id, last_submit and accepted            *)
(* egui has one pointer, so a frame carries at most one interaction:       *)
(* widget names the widget touched and arg the value chosen.               *)
(***************************************************************************)
\* action_tx.try_send(cmd).expect(..): a refused command panics
Submit(fs, cmd) ==
    IF fs.panicked THEN fs
    ELSE LET msg == [id |-> fs.next_id + 1] @@ cmd
             r == try_send(fs.q, action_closed, msg)
         IN  IF r.res = "ok"
             THEN [fs EXCEPT !.q = r.q,
                             !.next_id = @ + 1,
                             !.submit = "ok",
                             !.log = Append(@, msg)]
             ELSE [fs EXCEPT !.panicked = TRUE, !.submit = r.res]

MergeAppends(a, r) ==
    IF ~r.ok THEN a
    ELSE CASE r.msg.kind = "InputInfo" ->
                [a EXCEPT !.input_info = @ \o r.msg.payload]
           [] r.msg.kind = "OutputInfo" ->
                [a EXCEPT !.output_info = @ \o r.msg.payload]
           [] r.msg.kind = "SceneInfo" ->
                [a EXCEPT !.scene_info = r.msg.payload]
           [] r.msg.kind = "SceneCollectionInfo" ->
                [a EXCEPT !.scene_collection_info = r.msg.payload]
MergeInputsIgnored(a, r) ==
    IF ~r.ok THEN a
    ELSE CASE r.msg.kind = "InputInfo" -> a
           [] r.msg.kind = "OutputInfo" ->
                [a EXCEPT !.output_info = r.msg.payload]
           [] r.msg.kind = "SceneInfo" ->
                [a EXCEPT !.scene_info = r.msg.payload]
           [] r.msg.kind = "SceneCollectionInfo" ->
                [a EXCEPT !.scene_collection_info = r.msg.payload]
\* main.rs 167-182: a polled snapshot replaces the cached inventory of its kind
Merge(a, r) ==
    IF ~r.ok THEN a
    ELSE CASE r.msg.kind = "InputInfo" ->
                [a EXCEPT !.input_info = r.msg.payload]
           [] r.msg.kind = "OutputInfo" ->
                [a EXCEPT !.output_info = r.msg.payload]
           [] r.msg.kind = "SceneInfo" ->
                [a EXCEPT !.scene_info = r.msg.payload]
           [] r.msg.kind = "SceneCollectionInfo" ->
                [a EXCEPT !.scene_collection_info = r.msg.payload]

LoginTriggerEveryFrame(fs) ==
    IF fs.panicked THEN fs
    ELSE Submit([fs EXCEPT !.app.pass = "test1234"],
                LogIn("127.0.0.1", 4455, "test1234"))
\* main.rs 205-214: the first frame submits the LogIn
LoginTrigger(fs) ==
    IF fs.panicked \/ fs.app.logged_in THEN fs
    ELSE LET s == Submit([fs EXCEPT !.app.pass = "test1234"],
                         LogIn("127.0.0.1", 4455, "test1234"))
         IN  IF s.panicked THEN s ELSE [s EXCEPT !.app.logged_in = TRUE]

ComboEntriesAnyName(a, word) == Names \cup {None}
\* main.rs 226-241, 252-267: the entries of a combo box
ComboEntries(a, word) ==
    {a.input_info[i].name :
        i \in {j \in 1..Len(a.input_info) : contains(a.input_info[j].kind, word)}}
    \cup {None}

\* main.rs 219-243
MicCombo(fs, widget, arg) ==
    IF fs.panicked \/ widget # "mic_combo" THEN fs
    ELSE IF arg \in ComboEntries(fs.app, "input")
         THEN [fs EXCEPT !.app.mic_input_name = arg]
         ELSE fs

\* main.rs 244-269
DesktopCombo(fs, widget, arg) ==
    IF fs.panicked \/ widget # "desktop_combo" THEN fs
    ELSE IF arg \in ComboEntries(fs.app, "output")
         THEN [fs EXCEPT !.app.desktop_input_name = arg]
         ELSE fs

\* main.rs 272-286
MicSlider(fs, widget, arg) ==
    IF fs.panicked \/ widget # "mic_slider" THEN fs
    ELSE LET s == [fs EXCEPT !.app.mic_level = arg]
         IN  IF s.app.mic_input_name # None
             THEN Submit(s, SetVolume(s.app.mic_input_name, s.app.mic_level))
             ELSE s

\* main.rs 288-302
DesktopSlider(fs, widget, arg) ==
    IF fs.panicked \/ widget # "desktop_slider" THEN fs
    ELSE LET s == [fs EXCEPT !.app.desktop_level = arg]
         IN  IF s.app.desktop_input_name # None
             THEN Submit(s, SetVolume(s.app.desktop_input_name,
                                      s.app.desktop_level))
             ELSE s

\* main.rs 304-328: the button exists only while a microphone is selected
MicButton(fs, widget) ==
    IF fs.panicked \/ widget # "mic_button" THEN fs
    ELSE IF fs.app.mic_input_name # None
         THEN LET s == [fs EXCEPT !.app.mic_muted = ~@]
              IN  Submit(s, SetMute(s.app.mic_input_name, s.app.mic_muted))
         ELSE fs

\* main.rs 329-354
DesktopButton(fs, widget) ==
    IF fs.panicked \/ widget # "desktop_button" THEN fs
    ELSE IF fs.app.desktop_input_name # None
         THEN LET s == [fs EXCEPT !.app.desktop_muted = ~@]
              IN  Submit(s, SetMute(s.app.desktop_input_name,
                                    s.app.desktop_muted))
         ELSE fs

\* main.rs 166-371: one frame; cap bounds the commands accepted in a run
Frame(widget, arg, cap) ==
    /\ app_running
    /\ LET r == try_recv(obs_info_q)
           fs0 == [app |-> Merge(app, r), q |-> action_q, panicked |-> FALSE,
                   next_id |-> next_id, submit |-> last_submit,
                   log |-> accepted]
           fs1 == LoginTrigger(fs0)
           fs2 == MicCombo(fs1, widget, arg)
           fs3 == DesktopCombo(fs2, widget, arg)
           fs4 == MicSlider(fs3, widget, arg)
           fs5 == DesktopSlider(fs4, widget, arg)
           fs6 == MicButton(fs5, widget)
           fs7 == DesktopButton(fs6, widget)
       IN  /\ fs7.next_id <= cap
           /\ obs_info_q' = r.q
           /\ app' = fs7.app
           /\ action_q' = fs7.q
           /\ app_running' = ~fs7.panicked
           /\ next_id' = fs7.next_id
           /\ last_submit' = fs7.submit
           /\ accepted' = fs7.log
           /\ merged' = IF r.ok THEN Append(merged, r.msg) ELSE merged
    /\ UNCHANGED <<listed, muted>>
    /\ UNCHANGED <<action_closed, pc, action, obs_client, client, fetched,
                   conns, next_conn, sources, failure, last_call, last_recv,
                   skipped, delivered, logins_done>>

(***************************************************************************)
(* Spec: the program, consumer and driver together.                        *)
(***************************************************************************)
Driver ==
    \/ RecvSetMute
    \/ RecvSetVolume
    \/ RecvLogIn
    \/ OperationOkReturns
    \/ OperationFails
    \/ ConnectOk
    \/ ConnectFails
    \/ ListOk
    \/ ListFails
    \/ SendSnapshot

Mixer ==
    \/ ConnectionLost
    \/ SourceRemoved

Consumer ==
    \/ Frame("none", None, MaxCmds)
    \/ \E n \in Names \cup {None} : Frame("mic_combo", n, MaxCmds)
    \/ \E n \in Names \cup {None} : Frame("desktop_combo", n, MaxCmds)
    \/ \E l \in Levels : Frame("mic_slider", l, MaxCmds)
    \/ \E l \in Levels : Frame("desktop_slider", l, MaxCmds)
    \/ Frame("mic_button", None, MaxCmds)
    \/ Frame("desktop_button", None, MaxCmds)

Next == Driver \/ Mixer \/ Consumer

Spec == Init /\ [][Next]_vars

\* a frame in which the operator touches no widget
IdleFrame == Frame("none", None, MaxCmds)

(***************************************************************************)
(* LoginSpec: the program from start-up through its login, while the       *)
(* operator only looks at the window or picks sources; eframe keeps        *)
(* calling App::update, so a frame without interaction is eventually run.  *)
(***************************************************************************)
LoginDriver ==
    \/ RecvLogIn
    \/ ConnectOk
    \/ ConnectFails
    \/ ListOk
    \/ ListFails
    \/ SendSnapshot

PickSource ==
    \/ \E n \in Names \cup {None} : Frame("mic_combo", n, MaxCmds)
    \/ \E n \in Names \cup {None} : Frame("desktop_combo", n, MaxCmds)

LoginNext == LoginDriver \/ Mixer \/ IdleFrame \/ PickSource

LoginSpec == Init /\ [][LoginNext]_vars /\ WF_vars(IdleFrame)

(***************************************************************************)
(* BurstSpec: the program while the mixer stays up and the operator works  *)
(* the microphone widgets only, long enough to fill the Action channel.    *)
(***************************************************************************)
BurstDriver ==
    \/ RecvSetMute
    \/ RecvSetVolume
    \/ RecvLogIn
    \/ OperationOkReturns
    \/ ConnectOk
    \/ ListOk
    \/ SendSnapshot

BurstConsumer ==
    \/ Frame("none", None, MaxBurst)
    \/ Frame("mic_combo", "mic1", MaxBurst)
    \/ \E l \in Levels : Frame("mic_slider", l, MaxBurst)
    \/ Frame("mic_button", None, MaxBurst)

BurstNext == BurstDriver \/ BurstConsumer

BurstSpec == Init /\ [][BurstNext]_vars

(***************************************************************************)
(* DriverSpec: the driver loop fed by any holder of action_tx, with        *)
(* obs_info_rx drained by any receiver.                                    *)
(***************************************************************************)
\* a command is sent into the Action channel
Produce(cmd) ==
    /\ next_id < MaxDriverCmds
    /\ LET msg == [id |-> next_id + 1] @@ cmd
           r == try_send(action_q, action_closed, msg)
       IN  /\ r.res = "ok"
           /\ action_q' = r.q
           /\ accepted' = Append(accepted, msg)
    /\ next_id' = next_id + 1
    /\ last_submit' = "ok"
    /\ UNCHANGED <<listed, muted, merged>>
    /\ UNCHANGED <<action_closed, obs_info_q, pc, action, obs_client, client,
                   fetched, app, app_running, conns, next_conn, sources,
                   failure, last_call, last_recv, skipped, delivered,
                   logins_done>>

\* a snapshot is taken from the ObsInfo channel
Drain ==
    /\ try_recv(obs_info_q).ok
    /\ obs_info_q' = try_recv(obs_info_q).q
    /\ UNCHANGED <<listed, muted, merged>>
    /\ UNCHANGED <<action_q, action_closed, pc, action, obs_client, client,
                   fetched, app, app_running, conns, next_conn, sources,
                   next_id, last_submit, accepted, failure, last_call,
                   last_recv, skipped, delivered, logins_done>>

Producer ==
    \/ Produce(LogIn("127.0.0.1", 4455, "test1234"))
    \/ \E n \in Names, v \in BOOLEAN : Produce(SetMute(n, v))
    \/ \E n \in Names, l \in Levels : Produce(SetVolume(n, l))

DriverNext == Driver \/ Mixer \/ Producer \/ Drain

DriverSpec == Init /\ [][DriverNext]_vars

(***************************************************************************)
(* ConsumerSpec: App::update fed by any holder of obs_info_tx, which sends *)
(* snapshots of the mixer's current inventories in any order, while        *)
(* sources are removed at the mixer; accepted commands stay buffered.      *)
(***************************************************************************)
\* a snapshot of the i-th kind is sent into the ObsInfo channel
Emit(i) ==
    /\ app_running
    /\ Len(delivered) < MaxSnapshots
    /\ Len(obs_info_q) < ObsInfoCap
    /\ obs_info_q' = Append(obs_info_q,
                            ObsInfo(SendOrder[i].kind,
                                    ListResponse(SendOrder[i].from)))
    /\ delivered' = Append(delivered, SendOrder[i].kind)
    /\ UNCHANGED <<listed, muted, merged>>
    /\ UNCHANGED <<action_q, action_closed, pc, action, obs_client, client,
                   fetched, app, app_running, conns, next_conn, sources,
                   next_id, last_submit, accepted, failure, last_call,
                   last_recv, skipped, logins_done>>

Sender == \E i \in 1..Len(SendOrder) : Emit(i)

ConsumerNext == Sender \/ SourceRemoved \/ Consumer

ConsumerSpec == Init /\ [][ConsumerNext]_vars

(***************************************************************************)
(* VolumeSpec: the driver loop fed with a LogIn and then SetVolume         *)
(* commands for every slider position, with obs_info_rx drained.           *)
(***************************************************************************)
VolumeDriver ==
    \/ RecvSetVolume
    \/ RecvLogIn
    \/ OperationOkReturns
    \/ OperationFails
    \/ ConnectOk
    \/ ConnectFails
    \/ ListOk
    \/ ListFails
    \/ SendSnapshot

VolumeProducer ==
    \/ next_id = 0 /\ Produce(LogIn("127.0.0.1", 4455, "test1234"))
    \/ /\ next_id \in 1..(MaxVolumeCmds - 1)
       /\ \E n \in Names, p \in Percents : Produce(SetVolume(n, p))

VolumeNext == VolumeDriver \/ Mixer \/ VolumeProducer \/ Drain

VolumeSpec == Init /\ [][VolumeNext]_vars

(***************************************************************************)
(* Claims.                                                                 *)
(***************************************************************************)
InCall == pc.at \in {"set_muted", "set_volume"}

\* C1: whatever commands the driver receives, a SetMute or SetVolume makes
\* a call on the remote session only while the driver holds a session, which
\* it does only after a LogIn arm has completed; one received without a
\* session is consumed with no remote call.
C1_NoCallWithoutSession ==
    /\ InCall => obs_client # NoClient /\ last_call.id = action.id
    /\ last_call.op # "none" => last_call.held # NoClient
    /\ logins_done = 0 => ~InCall /\ last_call.op = "none"
    /\ last_call.id \notin skipped
    /\ \A i \in skipped : accepted[i].op \in {"SetMute", "SetVolume"}

\* a command was consumed without a session, and a later one reached the mixer
C1_Witness ==
    /\ skipped # {}
    /\ last_call.res = "ok"

\* C2: after a set_muted or set_volume that the mixer rejected, the driver
\* is still running and still holds its session.
C2_RejectedOperationKeepsSession ==
    last_call.res = "rejected" => pc.at # "panicked" /\ obs_client # NoClient

\* C3: after a failed connect the driver is back at recv without a session
\* and its end of the Action channel is still open.
C3_ConnectErrorRecovers ==
    failure = "connect" =>
        pc = At("recv") /\ obs_client = NoClient /\ ~action_closed

\* C4: after a failed inventory fetch the driver is still running.
C4_QueryErrorNonFatal ==
    failure = "list" => pc.at # "panicked" /\ ~action_closed

\* C5: a submit onto a full Action channel leaves the channel as it was and
\* the consumer running.
C5_FullQueueSubmitReturns ==
    last_submit = "full" => app_running /\ Len(action_q) = ActionCap

SnapshotKinds ==
    <<"InputInfo", "OutputInfo", "SceneInfo", "SceneCollectionInfo">>

\* C6: the snapshots sent are, login after login, InputInfo, OutputInfo,
\* SceneInfo, SceneCollectionInfo: four for every completed LogIn, plus those
\* of the LogIn being processed, and the ObsInfo channel holds the latest of
\* them in that order.
C6_FourSnapshotsInOrder ==
    /\ \A i \in 1..Len(delivered) :
          delivered[i] = SnapshotKinds[((i - 1) % 4) + 1]
    /\ Len(delivered) =
          4 * logins_done + (IF pc.at = "send" THEN pc.i - 1 ELSE 0)
    /\ Len(obs_info_q) <= Len(delivered)
    /\ \A i \in 1..Len(obs_info_q) :
          obs_info_q[i].kind =
              delivered[Len(delivered) - Len(obs_info_q) + i]

\* two logins have completed
C6_Witness ==
    /\ logins_done = 2
    /\ pc = At("recv")

\* the commands the driver has not received yet
Pending == SubSeq(accepted, last_recv + 1, Len(accepted))

\* C7: the driver receives the accepted commands one by one in submission
\* order, and every remote call is made for the command just received, with
\* that command's source name and value.
C7_SubmissionOrder ==
    /\ [](/\ last_recv <= Len(accepted)
          /\ pc.at # "panicked" => action_q = Pending
          /\ last_call.id <= last_recv
          /\ last_call.op # "none" =>
                LET a == accepted[last_call.id]
                IN  /\ last_call.name = a.name
                    /\ \/ a.op = "SetMute" /\ last_call.op = "set_muted"
                             /\ last_call.arg = a.val
                       \/ a.op = "SetVolume" /\ last_call.op = "set_volume"
                             /\ last_call.arg = VolumeMul(a.val))
    /\ [][/\ last_recv' \in {last_recv, last_recv + 1}
          /\ last_call'.id # last_call.id =>
                last_call'.id = last_recv' /\ last_recv' = last_recv + 1]_vars

\* three commands were received and the third reached the mixer
C7_Witness ==
    /\ last_recv = 3
    /\ last_call.id = 3
    /\ last_call.res = "ok"

C9_NoCallOnLostConnection ==
    last_call.op # "none" => last_call.live

\* C10: the first command the consumer gets accepted is a LogIn and it is
\* the only LogIn.
C10_LoginFirstAndOnce ==
    \A i \in 1..Len(accepted) : (accepted[i].op = "LogIn") <=> (i = 1)

\* a SetMute or SetVolume was accepted after the LogIn
C10_Witness ==
    /\ Len(accepted) >= 2
    /\ app.logged_in

\* the four cached inventories are those the latest login listed
CachesListed ==
    /\ logins_done >= 1
    /\ app.input_info = listed.input_info
    /\ app.output_info = listed.output_info
    /\ app.scene_info = listed.scenes
    /\ app.scene_collection_info = listed.scene_collections

\* C11: once a LogIn has completed, if frames keep running, the consumer's
\* four cached inventories come to equal the four lists that login fetched
\* (unless the main thread has ended).
C11_CachesEventuallyListed ==
    (logins_done >= 1) ~> (~app_running \/ CachesListed)

\* the login's non-empty input list has reached the consumer's cache
C11_Witness ==
    /\ CachesListed
    /\ app_running
    /\ Len(app.input_info) = 2

\* the four cached inventories of an App
Caches(a) ==
    <<a.input_info, a.output_info, a.scene_info, a.scene_collection_info>>

\* b's caches are a's with the inventory of s's kind replaced by s's payload
Replaced(a, s, b) ==
    /\ IF s.kind = "InputInfo" THEN b.input_info = s.payload
       ELSE b.input_info = a.input_info
    /\ IF s.kind = "OutputInfo" THEN b.output_info = s.payload
       ELSE b.output_info = a.output_info
    /\ IF s.kind = "SceneInfo" THEN b.scene_info = s.payload
       ELSE b.scene_info = a.scene_info
    /\ IF s.kind = "SceneCollectionInfo"
       THEN b.scene_collection_info = s.payload
       ELSE b.scene_collection_info = a.scene_collection_info

\* this step takes the oldest snapshot from the ObsInfo channel
Polled == obs_info_q # <<>> /\ obs_info_q' = Tail(obs_info_q)

\* C12: a step that takes a snapshot of kind K from the channel leaves the
\* cached inventory of kind K equal to the snapshot's payload and the other
\* three caches as they were; every other step leaves all four unchanged.
C12_ReplaceWholesale ==
    [][ /\ Polled => Replaced(app, Head(obs_info_q), app')
        /\ ~Polled => Caches(app') = Caches(app) ]_vars

\* a second InputInfo with a different list has replaced the first
C12_Witness ==
    /\ Len(merged) >= 2
    /\ merged[1].kind = "InputInfo"
    /\ merged[Len(merged)].kind = "InputInfo"
    /\ merged[1].payload # <<>>
    /\ merged[Len(merged)].payload # merged[1].payload
    /\ app.input_info = merged[Len(merged)].payload

\* C13: every set_volume call made for a SetVolume(name, pct) with pct in
\* 0..100 names the same source and passes the factor pct / 100; 50 gives
\* 1/2, 0 gives 0 and 100 gives 1.
C13_VolumeFactor ==
    last_call.op = "set_volume" =>
        LET a == accepted[last_call.id]
            f == last_call.arg.mul
        IN  /\ a.op = "SetVolume"
            /\ last_call.name = a.name
            /\ f.den > 0
            /\ f.num * 100 = a.val * f.den
            /\ a.val = 50 => f = [num |-> 1, den |-> 2]
            /\ a.val = 0 => f = [num |-> 0, den |-> 1]
            /\ a.val = 100 => f = [num |-> 1, den |-> 1]

\* SetVolume(name, 50) has been executed at a live session
C13_Witness ==
    /\ last_call.op = "set_volume"
    /\ last_call.res = "ok"
    /\ accepted[last_call.id].val = 50

\* command k is a SetMute(name, true) that directly follows an executed
\* SetMute(name, true) for the same name
RepeatedMute(k) ==
    /\ k >= 2
    /\ accepted[k].op = "SetMute"
    /\ accepted[k - 1].op = "SetMute"
    /\ accepted[k].val = TRUE
    /\ accepted[k - 1].val = TRUE
    /\ accepted[k - 1].name = accepted[k].name
    /\ (k - 1) \notin skipped

\* C14: when SetMute(name, true) is executed directly after an executed
\* SetMute(name, true), the second call's return leaves the mixer's mute
\* state as the first left it, with name muted.
C14_SecondMuteNoChange ==
    [][ (pc.at = "set_muted" /\ pc'.at = "recv" /\ RepeatedMute(last_call.id))
            => (muted' = muted /\ muted[last_call.name]) ]_vars

\* the second of two consecutive SetMute(name, true) has returned Ok
C14_Witness ==
    /\ last_call.op = "set_muted"
    /\ last_call.res = "ok"
    /\ RepeatedMute(last_call.id)
    /\ muted[last_call.name]

\* C15: in every reachable state the consumer can run a frame.
C15_FrameStepEnabled == ENABLED IdleFrame

\* the kinds of a sequence of snapshots
Kinds(q) == [i \in 1..Len(q) |-> q[i].kind]

\* the cached inventory of a kind
CacheOf(a, kind) ==
    CASE kind = "InputInfo" -> a.input_info
      [] kind = "OutputInfo" -> a.output_info
      [] kind = "SceneInfo" -> a.scene_info
      [] kind = "SceneCollectionInfo" -> a.scene_collection_info

\* the payload of the snapshot of a kind merged last, App::new's value if none
LastMerged(kind) ==
    LET at == {i \in 1..Len(merged) : merged[i].kind = kind}
    IN  IF at = {} THEN CacheOf(AppNew, kind)
        ELSE merged[CHOOSE i \in at : \A j \in at : j <= i].payload

\* C16: the snapshots merged so far followed by those still buffered are the
\* snapshots sent, in sending order (so each is merged once, in that order),
\* and each cache holds the payload merged last for its kind; a step merges
\* at most one snapshot, and no cache changes while the channel is empty.
C16_MergedInEmissionOrder ==
    /\ [](/\ Kinds(merged) \o Kinds(obs_info_q) = delivered
          /\ \A i \in 1..Len(SnapshotKinds) :
                CacheOf(app, SnapshotKinds[i]) = LastMerged(SnapshotKinds[i]))
    /\ [][ /\ Len(merged') <= Len(merged) + 1
           /\ Len(obs_info_q') >= Len(obs_info_q) - 1
           /\ obs_info_q = <<>> => Caches(app') = Caches(app) ]_vars

\* three snapshots have been merged, one frame each, while the fourth waits
C16_Witness ==
    /\ Len(merged) = 3
    /\ Len(obs_info_q) = 1
    /\ Kinds(merged) = SubSeq(SnapshotKinds, 1, 3)
    /\ app.scene_info = ListScenes

\* the source names of the cached input inventory
InputNames(a) == {a.input_info[i].name : i \in 1..Len(a.input_info)}

C18_AcceptedNeverDiscarded ==
    /\ Len(action_q) = Len(Pending)
    /\ \A i \in 1..Len(Pending) : action_q[i].id = Pending[i].id
    /\ skipped = {}

\* the LogIn being processed has not passed its last fetch, or a LogIn ended
\* in a failed connect or fetch
BeforeLastFetch ==
    \/ pc.at \in {"connect", "list"}
    \/ failure \in {"connect", "list"}

\* C19: until the connect and the four fetches of a LogIn have all succeeded,
\* and for good if one of them fails, the snapshots sent are only the four of
\* each completed LogIn; with no completed LogIn none is sent, buffered or
\* merged and the consumer's caches are those of App::new.
C19_SnapshotsAllOrNothing ==
    BeforeLastFetch =>
        /\ Len(delivered) = 4 * logins_done
        /\ Len(merged) + Len(obs_info_q) = Len(delivered)
        /\ logins_done = 0 => Caches(app) = Caches(AppNew)

\* the fourth fetch of the login failed after three had succeeded, frames ran
C19_Witness ==
    /\ failure = "list"
    /\ listed.scenes = ListScenes
    /\ app.logged_in
    /\ delivered = <<>>
    /\ Caches(app) = Caches(AppNew)

\* the source names of the InputInfo snapshots merged so far
MergedInputNames ==
    UNION {{merged[i].payload[j].name : j \in 1..Len(merged[i].payload)} :
              i \in {k \in 1..Len(merged) : merged[k].kind = "InputInfo"}}

\* C20: every accepted SetMute or SetVolume names a source listed in an
\* InputInfo the consumer has merged, so none is accepted before a LogIn
\* has connected, fetched its four lists and had its InputInfo merged.
C20_CommandsNameMergedInputs ==
    \A k \in 1..Len(accepted) :
        accepted[k].op # "LogIn" =>
            /\ accepted[k].name \in MergedInputNames
            /\ logins_done >= 1 \/ pc.at = "send"

\* a SetMute for the selected desktop source has been accepted
C20_Witness ==
    /\ Len(accepted) >= 2
    /\ accepted[2].op = "SetMute"
    /\ accepted[2].name = "desk1"
    /\ "desk1" \in MergedInputNames

====
